---------------------------- MODULE Spec2Model ----------------------------
(***************************************************************************)
(* Model of the playbook maintenance engine of claude-memoria              *)
(* (src/src/hooks/common.ts): key-point naming, the playbook loader, the   *)
(* scoring/merge engine and the multi-round reflective extractor, and of  *)
(* the session gate and the three hooks that drive them                   *)
(* (user_prompt_inject.ts, session_end.ts, precompact.ts).                 *)
(*                                                                         *)
(* A name is a sequence of one-character strings, so that startsWith,      *)
(* split, parseInt, String and padStart are modelled by what they do.      *)
(***************************************************************************)
EXTENDS Integers, Sequences, FiniteSets, TLC

VARIABLES
    existingNames,  \* generateKeypointName: the Set<string> it is given
    namesBefore,    \* the set as it stood when the last name was generated
    generated,      \* the last generated name (<<>> before the first)
    file,           \* persisted playbook.json: its raw key_points sequence
    playbook,       \* key_points of the Playbook held in memory
    pre,            \* key_points as they stood before the last merge
    res,            \* ExtractionResult applied by the last merge
    op,             \* the last operation: "init", "generate", "load", "merge"
    merges,         \* number of merges applied so far
    streak,         \* the run of merges, up to the last one, that each carried
                    \* the single evaluation {name, harmful} for one name
    apiKey,         \* extractKeypoints: whether an API credential is configured
    roundsEnv,      \* the text of AGENTIC_CONTEXT_MAX_ROUNDS, or its absence
    round,          \* the loop variable of the reflection loop
    calls,          \* number of client.messages.create calls issued
    previousInsights, \* insights accumulated over the rounds
    finalResult,    \* the running ExtractionResult
    pc,             \* "start", "awaiting" (a call is in flight) or "done"
    returned,       \* the ExtractionResult returned, once pc = "done"
    log,            \* per round issued so far: whether it failed, and the
                    \* convergence fields of its reply
    token,          \* .claude/last_session.txt: whether it exists, and its text
    template,       \* ~/.claude/prompts/playbook.txt as a sequence of pieces
    proc,           \* the update cycles (session_end, precompact) in progress
    lastRun,        \* what the last completed hook run did and reported
    runs,           \* number of hook runs started so far
    injected        \* the session ids for which context has been emitted

nameVars == <<existingNames, namesBefore, generated>>

storeVars == <<file, playbook, pre, res, merges, streak>>

extractVars == <<apiKey, roundsEnv, round, calls, previousInsights, finalResult, pc,
                 returned, log>>

hookVars == <<token, template, proc, lastRun, runs, injected>>

vars == <<nameVars, storeVars, extractVars, hookVars, op>>

--------------------------------------------------------------------------
(* Bounds of the model *)

\* largest number of names in the set first handed to generateKeypointName
MaxNames == 3

\* largest number of entries of a persisted key_points sequence
MaxFileLen == 3

\* largest number of key points of the playbook a sequence of merges starts from
MaxInitLen == 2

\* largest number of entries of one ExtractionResult, new_key_points and
\* evaluations taken together
MaxResultSize == 2

\* largest number of merges in a row
MaxMerges == 2

\* largest configured number of reflection rounds
MaxRoundsConfigured == 3

\* largest number of hook runs in one behaviour
MaxRuns == 3

--------------------------------------------------------------------------
(* Strings as character sequences *)

Digits == {"0", "1", "2", "3", "4", "5", "6", "7", "8", "9"}

DigitVal(c) ==
    CASE c = "0" -> 0 [] c = "1" -> 1 [] c = "2" -> 2 [] c = "3" -> 3
      [] c = "4" -> 4 [] c = "5" -> 5 [] c = "6" -> 6 [] c = "7" -> 7
      [] c = "8" -> 8 [] c = "9" -> 9

DigitChar(d) ==
    CASE d = 0 -> "0" [] d = 1 -> "1" [] d = 2 -> "2" [] d = 3 -> "3"
      [] d = 4 -> "4" [] d = 5 -> "5" [] d = 6 -> "6" [] d = 7 -> "7"
      [] d = 8 -> "8" [] d = 9 -> "9"

\* the literal 'kpt_'
Kpt == <<"k", "p", "t", "_">>

\* String.prototype.startsWith
StartsWith(s, prefix) ==
    /\ Len(s) >= Len(prefix)
    /\ SubSeq(s, 1, Len(prefix)) = prefix

\* index of the first occurrence of character c in s at or after position i,
\* Len(s) + 1 when there is none
RECURSIVE IndexFrom(_, _, _)
IndexFrom(s, c, i) ==
    IF i > Len(s) THEN Len(s) + 1
    ELSE IF s[i] = c THEN i
    ELSE IndexFrom(s, c, i + 1)

\* name.split('_')[1]: the text between the first and the second underscore
\* (to the end when there is no second one); [absent |-> TRUE] when the name
\* holds no underscore, where split gives a one-element array
SplitSecond(s) ==
    LET first == IndexFrom(s, "_", 1)
        second == IndexFrom(s, "_", first + 1)
    IN  IF first > Len(s) THEN [absent |-> TRUE, text |-> <<>>]
        ELSE [absent |-> FALSE, text |-> SubSeq(s, first + 1, second - 1)]

\* the leading run of decimal digits of s from position i on
RECURSIVE DigitRun(_, _)
DigitRun(s, i) ==
    IF i > Len(s) \/ s[i] \notin Digits THEN <<>>
    ELSE <<s[i]>> \o DigitRun(s, i + 1)

\* value of a digit sequence, most significant digit first
RECURSIVE DigitsValue(_)
DigitsValue(ds) ==
    IF ds = <<>> THEN 0
    ELSE 10 * DigitsValue(SubSeq(ds, 1, Len(ds) - 1)) + DigitVal(ds[Len(ds)])

\* first position of s at or after i that holds no blank
RECURSIVE SkipBlanks(_, _)
SkipBlanks(s, i) ==
    IF i <= Len(s) /\ s[i] = " " THEN SkipBlanks(s, i + 1) ELSE i

\* parseInt(text, 10): leading blanks are skipped, one sign is read, then the
\* leading decimal digits; what follows them is ignored; NaN when there is no
\* digit (or the argument is undefined)
ParseInt(t) ==
    IF t.absent THEN [nan |-> TRUE, val |-> 0]
    ELSE
      LET s == t.text
          b == SkipBlanks(s, 1)
          neg == b <= Len(s) /\ s[b] = "-"
          d == IF b <= Len(s) /\ s[b] \in {"-", "+"} THEN b + 1 ELSE b
          run == DigitRun(s, d)
      IN  IF run = <<>> THEN [nan |-> TRUE, val |-> 0]
          ELSE [nan |-> FALSE,
                val |-> IF neg THEN 0 - DigitsValue(run) ELSE DigitsValue(run)]

\* String(n) for an integer n >= 0
RECURSIVE NumToString(_)
NumToString(n) ==
    IF n < 10 THEN <<DigitChar(n)>>
    ELSE NumToString(n \div 10) \o <<DigitChar(n % 10)>>

\* s.padStart(3, '0')
RECURSIVE PadStart3(_)
PadStart3(s) ==
    IF Len(s) >= 3 THEN s ELSE PadStart3(<<"0">> \o s)

\* Math.max over a non-empty finite set of integers
MaxOf(S) == CHOOSE m \in S : \A x \in S : x <= m

--------------------------------------------------------------------------
(* generateKeypointName, common.ts 66-81 *)

\* the numbers the loop feeds to Math.max: the parsed suffix of every name
\* that starts with 'kpt_' and whose parse is not NaN
SuffixNumbers(names) ==
    { ParseInt(SplitSecond(n)).val :
        n \in { m \in names : /\ StartsWith(m, Kpt)
                               /\ ~ParseInt(SplitSecond(m)).nan } }

\* maxNum after the loop, starting from 0
MaxNum(names) == MaxOf(SuffixNumbers(names) \cup {0})

\* the name without the increment of maxNum
GenerateWithoutIncrement(names) ==
    Kpt \o PadStart3(NumToString(MaxNum(names)))

generateKeypointName(names) ==
    Kpt \o PadStart3(NumToString(MaxNum(names) + 1))

--------------------------------------------------------------------------
(* Specification SpecName: generateKeypointName on sets of names *)

\* 'kpt_' followed by the given characters
K(tail) == Kpt \o tail

\* names as a persisted playbook may hold them: generated ones, and names a
\* person wrote
NameUniverse ==
    { K(<<"0", "0", "1">>),            \* kpt_001
      K(<<"0", "0", "2">>),            \* kpt_002
      K(<<"3">>),                      \* kpt_3
      K(<<"9", "9", "9">>),            \* kpt_999
      K(<<"7", "x">>),                 \* kpt_7x
      K(<<"x", "7">>),                 \* kpt_x7
      K(<<>>),                         \* kpt_
      K(<<"4", "_", "9">>),            \* kpt_4_9
      K(<<"-", "5">>),                 \* kpt_-5
      K(<<" ", "6">>),                 \* 'kpt_ 6'
      <<"n", "o", "t", "e">>,          \* note
      <<"k", "p", "t">>,               \* kpt
      <<"k", "_", "8">> }              \* k_8

\* the sets of at most maxSize names
NameSets(maxSize) == { S \in SUBSET NameUniverse : Cardinality(S) <= maxSize }

NoName == <<>>

EmptyResult == [new_key_points |-> <<>>, evaluations |-> <<>>]

\* the extractor's variables when no extraction is modelled
ExtractorIdle ==
    /\ apiKey = FALSE
    /\ roundsEnv = [absent |-> TRUE, text |-> <<>>]
    /\ round = 0
    /\ calls = 0
    /\ previousInsights = <<>>
    /\ finalResult = EmptyResult
    /\ pc = "done"
    /\ returned = EmptyResult
    /\ log = <<>>

\* no session id
NoId == [kind |-> "absent", text |-> <<>>]

\* the record of a hook run, before any hook has run: the hook, how far it
\* got (case), its session id, what it wrote to standard output, its exit
\* status, whether it reported an error, read or wrote playbook.json, called
\* extractKeypoints, marked or cleared the session token, emitted context for
\* a session id that had context emitted before (again), the texts other
\* cycles saved while this one was extracting and that the playbook it had
\* loaded lacks (missed), and the texts of its own new_key_points (own)
NoRun ==
    [hook |-> "none", case |-> "none", id |-> NoId, stdout |-> <<>>, exit |-> 0,
     err |-> FALSE, read |-> FALSE, wrote |-> FALSE, extracted |-> FALSE,
     marked |-> FALSE, cleared |-> FALSE, again |-> FALSE, missed |-> {},
     own |-> {}]

\* the hooks' variables when no hook is modelled
HooksIdle ==
    /\ token = [exists |-> FALSE, text |-> <<>>]
    /\ template = <<>>
    /\ proc = <<>>
    /\ lastRun = NoRun
    /\ runs = 0
    /\ injected = {}

\* no run of harmful-only merges is under way
NoStreak == [name |-> NoName, start |-> 0, count |-> 0]

InitName ==
    /\ existingNames \in NameSets(MaxNames)
    /\ namesBefore = {}
    /\ generated = NoName
    /\ file = <<>>
    /\ playbook = <<>>
    /\ pre = <<>>
    /\ res = EmptyResult
    /\ op = "init"
    /\ merges = 0
    /\ streak = NoStreak
    /\ ExtractorIdle
    /\ HooksIdle

\* const name = generateKeypointName(existingNames); existingNames.add(name)
\* (common.ts 190-192, 134-136)
GenerateName ==
    /\ Cardinality(existingNames) <= MaxNames
    /\ generated' = generateKeypointName(existingNames)
    /\ namesBefore' = existingNames
    /\ existingNames' = existingNames \cup {generated'}
    /\ op' = "generate"
    /\ UNCHANGED <<storeVars, extractVars, hookVars>>

NextName == GenerateName

SpecName == InitName /\ [][NextName]_vars

--------------------------------------------------------------------------
(* C6 *)

\* name is 'kpt_' followed by the decimal numeral of n, zero-padded to three
\* digits (longer numerals are not padded)
IsKptNumeral(name, n) ==
    /\ StartsWith(name, Kpt)
    /\ LET ds == SubSeq(name, 5, Len(name))
       IN  /\ \A i \in 1..Len(ds) : ds[i] \in Digits
           /\ Len(ds) >= 3
           /\ (Len(ds) > 3 => ds[1] # "0")
           /\ DigitsValue(ds) = n

\* a name of the pattern kpt_NNN: 'kpt_' followed by digits and nothing else
MatchesKptPattern(name) ==
    /\ StartsWith(name, Kpt)
    /\ Len(name) > 4
    /\ \A i \in 5..Len(name) : name[i] \in Digits

PatternSuffix(name) == DigitsValue(SubSeq(name, 5, Len(name)))

\* the largest suffix among the names of the pattern, 0 when there is none
MaxPatternSuffix(names) ==
    MaxOf({ PatternSuffix(n) : n \in { m \in names : MatchesKptPattern(m) } } \cup {0})

\* C6 as claimed: the generated name is kpt_NNN with NNN one greater than the
\* largest suffix among the existing names of the pattern kpt_NNN (kpt_001
\* when there is none); names not of the pattern do not affect the number.
C6_AsClaimed ==
    op = "generate" => IsKptNumeral(generated, MaxPatternSuffix(namesBefore) + 1)

\* the text of a name after 'kpt_', up to the next underscore
SegmentAfterKpt(name) ==
    LET rest == SubSeq(name, 5, Len(name))
        k == CHOOSE j \in 0..Len(rest) :
                 /\ \A i \in 1..j : rest[i] # "_"
                 /\ (j = Len(rest) \/ rest[j + 1] = "_")
    IN  SubSeq(rest, 1, k)

\* seg reads as blanks, an optional sign and at least one digit, followed by
\* anything: the position of its first digit, 0 when it does not read so
FirstDigitPos(seg) ==
    LET b == CHOOSE j \in 0..Len(seg) :
                 /\ \A i \in 1..j : seg[i] = " "
                 /\ (j = Len(seg) \/ seg[j + 1] # " ")
        s == IF b < Len(seg) /\ seg[b + 1] \in {"+", "-"} THEN b + 1 ELSE b
    IN  IF s < Len(seg) /\ seg[s + 1] \in Digits THEN s + 1 ELSE 0

\* the integer such a segment begins with
LeadingInteger(seg) ==
    LET p == FirstDigitPos(seg)
        e == CHOOSE j \in p..Len(seg) :
                 /\ \A i \in p..j : seg[i] \in Digits
                 /\ (j = Len(seg) \/ seg[j + 1] \notin Digits)
        v == DigitsValue(SubSeq(seg, p, e))
    IN  IF p > 1 /\ seg[p - 1] = "-" THEN 0 - v ELSE v

\* the names that take part in the numbering: they start with 'kpt_' and the
\* segment after it begins with an integer
CountsForNumbering(name) ==
    StartsWith(name, Kpt) /\ FirstDigitPos(SegmentAfterKpt(name)) > 0

MaxLeadingInteger(names) ==
    MaxOf({ LeadingInteger(SegmentAfterKpt(n)) :
              n \in { m \in names : CountsForNumbering(m) } } \cup {0})

\* C6 amended: the generated name is kpt_NNN with NNN one greater than the
\* largest positive integer that the segment after 'kpt_' (up to the next
\* underscore) begins with, among the existing names that start with 'kpt_'
\* (kpt_001 when there is none): kpt_7x and kpt_4_9 count as 7 and 4.
C6_GeneratedNumber ==
    op = "generate" => IsKptNumeral(generated, MaxLeadingInteger(namesBefore) + 1)

\* C6 witness: a name was generated from a set holding a name of the pattern
\* and a name that only begins like one, the second carrying the larger number
C6_Witness ==
    /\ op = "generate"
    /\ \E a, b \in namesBefore :
          /\ MatchesKptPattern(a)
          /\ ~MatchesKptPattern(b) /\ CountsForNumbering(b)
          /\ LeadingInteger(SegmentAfterKpt(b)) > PatternSuffix(a)

--------------------------------------------------------------------------
(* loadPlaybook, common.ts 115-155 *)

\* texts of key points
FileTexts == {"a", "b"}

\* names written in a persisted playbook
FileNames == { K(<<"0", "0", "1">>), <<"n", "o", "t", "e">> }

\* scores written in a persisted playbook
FileScores == {0, 0 - 4}

\* One entry of the persisted key_points array:
\*   "string"  a bare string (the legacy shape)
\*   "object"  an object; name = NoName when it has no name (or an empty one),
\*             hasScore = FALSE when it has no score
\*   "number"  a value that is neither a string nor an object
\*   "null"    null, whose typeof is 'object'
RawItems ==
    [kind : {"string"}, name : {NoName}, text : FileTexts,
     hasScore : {FALSE}, score : {0}]
    \cup
    [kind : {"object"}, name : FileNames \cup {NoName}, text : FileTexts,
     hasScore : {TRUE}, score : FileScores]
    \cup
    [kind : {"object"}, name : FileNames \cup {NoName}, text : FileTexts,
     hasScore : {FALSE}, score : {0}]
    \cup
    [kind : {"number", "null"}, name : {NoName}, text : {"a"},
     hasScore : {FALSE}, score : {0}]

RECURSIVE SeqsUpTo(_, _)
SeqsUpTo(S, n) ==
    IF n = 0 THEN {<<>>}
    ELSE LET shorter == SeqsUpTo(S, n - 1)
         IN  shorter \cup { Append(q, x) : q \in { r \in shorter : Len(r) = n - 1 }, x \in S }

\* playbook.json: absent, unparsable, or parsed with its key_points array
\* (an absent key_points member reads as the empty array, line 125)
Files(maxLen) ==
    [state : {"absent", "malformed"}, key_points : {<<>>}]
    \cup
    [state : {"ok"}, key_points : SeqsUpTo(RawItems, maxLen)]

KeyPoint(name, text, score) == [name |-> name, text |-> text, score |-> score]

\* the name kept as written, without the backfill
KeepWrittenName(item, names) == item.name

\* lines 138-140: an object without a name (or with an empty one) gets a
\* generated one
BackfillName(item, names) ==
    IF item.name = NoName THEN generateKeypointName(names) ELSE item.name

\* lines 141-143: an object without a score (or with a zero one) gets 0
BackfillScore(item) ==
    IF ~item.hasScore \/ item.score = 0 THEN 0 ELSE item.score

\* the loop of lines 132-147 from entry i on, with the key points pushed and
\* the names added so far; reading a member of null throws, which the catch
\* of line 152 turns into the empty playbook
RECURSIVE LoadItems(_, _, _, _)
LoadItems(items, i, keypoints, names) ==
    IF i > Len(items) THEN keypoints
    ELSE
      LET item == items[i]
      IN  CASE item.kind = "string" ->
                 LET name == generateKeypointName(names)
                 IN  LoadItems(items, i + 1,
                               Append(keypoints, KeyPoint(name, item.text, 0)),
                               names \cup {name})
            [] item.kind = "object" ->
                 LET name == BackfillName(item, names)
                 IN  LoadItems(items, i + 1,
                               Append(keypoints,
                                      KeyPoint(name, item.text, BackfillScore(item))),
                               names \cup {name})
            [] item.kind = "number" ->
                 LoadItems(items, i + 1, keypoints, names)
            [] item.kind = "null" -> <<>>

\* the key_points of the playbook loadPlaybook returns
loadPlaybook(f) ==
    IF f.state # "ok" THEN <<>>
    ELSE LoadItems(f.key_points, 1, <<>>, {})

--------------------------------------------------------------------------
(* Specification SpecLoad: loadPlaybook on persisted files *)

NoFile == [state |-> "absent", key_points |-> <<>>]

InitLoad ==
    /\ file \in Files(MaxFileLen)
    /\ playbook = <<>>
    /\ op = "init"
    /\ existingNames = {}
    /\ namesBefore = {}
    /\ generated = NoName
    /\ pre = <<>>
    /\ res = EmptyResult
    /\ merges = 0
    /\ streak = NoStreak
    /\ ExtractorIdle
    /\ HooksIdle

LoadPlaybook ==
    /\ op = "init"
    /\ playbook' = loadPlaybook(file)
    /\ op' = "load"
    /\ UNCHANGED <<nameVars, file, pre, res, merges, streak, extractVars, hookVars>>

NextLoad == LoadPlaybook

SpecLoad == InitLoad /\ [][NextLoad]_vars

--------------------------------------------------------------------------
(* C7 *)

Names(kps) == { kps[i].name : i \in 1..Len(kps) }

PairwiseDistinctNames(kps) ==
    \A i, j \in 1..Len(kps) : i # j => kps[i].name # kps[j].name

OnlyKinds(items, kinds) == \A i \in 1..Len(items) : items[i].kind \in kinds

\* C7: a persisted key_points of n bare strings loads as n key points in the
\* same order, with the strings as texts, score 0 and the names kpt_001 ..
\* kpt_n; an object without a name gets a generated name (the next number
\* after the names of the entries before it), one without a score gets 0.
C7_LegacyNormalization ==
    (op = "load" /\ file.state = "ok") =>
        LET items == file.key_points
        IN  /\ OnlyKinds(items, {"string"}) =>
                /\ Len(playbook) = Len(items)
                /\ \A i \in 1..Len(items) :
                      /\ IsKptNumeral(playbook[i].name, i)
                      /\ playbook[i].text = items[i].text
                      /\ playbook[i].score = 0
            /\ OnlyKinds(items, {"string", "object"}) =>
                /\ Len(playbook) = Len(items)
                /\ \A i \in 1..Len(items) :
                      /\ playbook[i].text = items[i].text
                      /\ (items[i].kind = "object" /\ items[i].name = NoName) =>
                            IsKptNumeral(playbook[i].name,
                                MaxLeadingInteger(Names(SubSeq(playbook, 1, i - 1))) + 1)
                      /\ (items[i].kind = "object" /\ items[i].name # NoName) =>
                            playbook[i].name = items[i].name
                      /\ (items[i].kind = "object" /\ ~items[i].hasScore) =>
                            playbook[i].score = 0
                      /\ (items[i].kind = "object" /\ items[i].hasScore) =>
                            playbook[i].score = items[i].score

\* C7 witness: two bare strings followed by an object with neither name nor
\* score have been loaded
C7_Witness ==
    /\ op = "load"
    /\ file.state = "ok"
    /\ Len(file.key_points) = 3
    /\ file.key_points[1].kind = "string"
    /\ file.key_points[2].kind = "string"
    /\ file.key_points[3].kind = "object"
    /\ file.key_points[3].name = NoName
    /\ ~file.key_points[3].hasScore
    /\ Len(playbook) = 3

--------------------------------------------------------------------------
(* C8 *)

\* the names written in the file are pairwise distinct
ExplicitNamesDistinct(items) ==
    \A i, j \in 1..Len(items) :
        (i # j /\ items[i].name # NoName /\ items[j].name # NoName)
            => items[i].name # items[j].name

\* C8: for every persisted key_points that mixes bare strings, objects
\* without a name and objects with a name, the written names being pairwise
\* distinct, the loaded playbook has pairwise distinct names.
C8_LoadedNamesDistinct ==
    (/\ op = "load"
     /\ file.state = "ok"
     /\ OnlyKinds(file.key_points, {"string", "object"})
     /\ ExplicitNamesDistinct(file.key_points))
        => PairwiseDistinctNames(playbook)

--------------------------------------------------------------------------
(* updatePlaybookData, common.ts 181-212 *)

Texts(kps) == { kps[i].text : i \in 1..Len(kps) }

\* the loop of lines 188-194 from text i on. existingTexts is the set built
\* before the loop (line 186); existingNames grows with every generated name
RECURSIVE AddNewKeyPoints(_, _, _, _, _)
AddNewKeyPoints(kps, newKeyPoints, i, names, existingTexts) ==
    IF i > Len(newKeyPoints) THEN kps
    ELSE
      LET text == newKeyPoints[i]
      IN  IF text # "" /\ text \notin existingTexts
          THEN LET name == generateKeypointName(names)
               IN  AddNewKeyPoints(Append(kps, KeyPoint(name, text, 0)),
                                   newKeyPoints, i + 1,
                                   names \cup {name}, existingTexts)
          ELSE AddNewKeyPoints(kps, newKeyPoints, i + 1, names, existingTexts)

\* the first loop with existingNames starting empty
WithNewNamesFromEmpty(kps, newKeyPoints) ==
    AddNewKeyPoints(kps, newKeyPoints, 1, {}, Texts(kps))

\* the first loop with existingTexts starting empty
WithNewTextsNotChecked(kps, newKeyPoints) ==
    AddNewKeyPoints(kps, newKeyPoints, 1, Names(kps), {})

\* key_points after the first loop
WithNewKeyPoints(kps, newKeyPoints) ==
    AddNewKeyPoints(kps, newKeyPoints, 1, Names(kps), Texts(kps))

\* the table with harmful costing as much as neutral
RatingDeltaHarmfulAsNeutral == [helpful |-> 1, harmful |-> 0 - 1, neutral |-> 0 - 1]

\* line 196
ratingDelta == [helpful |-> 1, harmful |-> 0 - 3, neutral |-> 0 - 1]

\* Names of properties a plain object inherits from Object.prototype:
\* ratingDelta[rating] is then a function (or an object), which is truthy,
\* and score += it makes the score a string
ObjectPrototypeKeys == {"constructor"}

\* line 201: evalItem.rating || 'neutral'
RatingOf(evalItem) ==
    IF evalItem.rating = "" THEN "neutral" ELSE evalItem.rating

\* line 205: ratingDelta[rating] || 0, for a rating that is no inherited key
Delta(rating) ==
    IF rating \in DOMAIN ratingDelta THEN ratingDelta[rating] ELSE 0

\* new Map(...) of line 197: the entry a name maps to is the last key point
\* carrying it; 0 when no key point does
NameToKp(kps, name) ==
    LET at == { i \in 1..Len(kps) : kps[i].name = name }
    IN  IF at = {} THEN 0 ELSE MaxOf(at)

\* a variant in which every key point enters the evaluations with score 0
ScoredFromZero(kp) == [name |-> kp.name, text |-> kp.text, score |-> 0, isNum |-> TRUE]

\* a key point while the evaluations are applied: isNum is FALSE once its
\* score has become a string
Scored(kp) == [name |-> kp.name, text |-> kp.text, score |-> kp.score, isNum |-> TRUE]

\* line 205 on one key point
AddDelta(kp, rating) ==
    IF rating \in ObjectPrototypeKeys \/ ~kp.isNum
    THEN [kp EXCEPT !.isNum = FALSE]
    ELSE [kp EXCEPT !.score = kp.score + Delta(rating)]

\* the loop of lines 199-207 from evaluation i on
RECURSIVE ApplyEvaluations(_, _, _)
ApplyEvaluations(kps, evaluations, i) ==
    IF i > Len(evaluations) THEN kps
    ELSE
      LET evalItem == evaluations[i]
          at == NameToKp(kps, evalItem.name)
      IN  IF at # 0
          THEN ApplyEvaluations(
                   [kps EXCEPT ![at] = AddDelta(kps[at], RatingOf(evalItem))],
                   evaluations, i + 1)
          ELSE ApplyEvaluations(kps, evaluations, i + 1)

\* key_points after the two loops, before the filter
Evaluated(kps, extractionResult) ==
    LET grown == WithNewKeyPoints(kps, extractionResult.new_key_points)
    IN  ApplyEvaluations([i \in 1..Len(grown) |-> Scored(grown[i])],
                         extractionResult.evaluations, 1)

\* the filter with >= in place of >
SurvivesAtMinusFive(kp) == kp.isNum /\ kp.score >= 0 - 5

\* line 209: (kp.score || 0) > -5; a string score compares as NaN
Survives(kp) == kp.isNum /\ kp.score > 0 - 5

RECURSIVE Prune(_)
Prune(kps) ==
    IF kps = <<>> THEN <<>>
    ELSE LET kp == Head(kps)
         IN  IF Survives(kp)
             THEN <<KeyPoint(kp.name, kp.text, kp.score)>> \o Prune(Tail(kps))
             ELSE Prune(Tail(kps))

\* the key_points of the playbook updatePlaybookData returns
updatePlaybookData(kps, extractionResult) ==
    Prune(Evaluated(kps, extractionResult))

--------------------------------------------------------------------------
(* Specification Spec: sequences of merges *)

\* names of the key points a sequence of merges starts from
InitNames == { K(<<"0", "0", "1">>), K(<<"7", "x">>), <<"n", "o", "t", "e">> }

InitScores == {0, 0 - 4, 0 - 5}

\* texts the extractor proposes: empty, one that a playbook may hold already,
\* one that none holds at the start
NewTexts == {"", "a", "c"}

\* names the extractor evaluates
EvalNames == { K(<<"0", "0", "1">>), K(<<"0", "0", "2">>) }

\* rating strings of the extractor; "" stands for a missing or empty rating
Ratings == {"helpful", "harmful", "neutral", "", "bogus", "constructor"}

Evaluations == [name : EvalNames, rating : Ratings]

\* the extraction results of at most maxSize entries
ExtractionResults(maxSize) ==
    UNION { { [new_key_points |-> n, evaluations |-> e] :
                e \in SeqsUpTo(Evaluations, maxSize - Len(n)) } :
            n \in SeqsUpTo(NewTexts, maxSize) }

\* playbooks as the program keeps them: the names pairwise distinct
InitPlaybooks(maxLen) ==
    { kps \in SeqsUpTo([name : InitNames, text : FileTexts, score : InitScores],
                       maxLen) :
        PairwiseDistinctNames(kps) }

Init ==
    /\ playbook \in InitPlaybooks(MaxInitLen)
    /\ pre = <<>>
    /\ res = EmptyResult
    /\ op = "init"
    /\ merges = 0
    /\ file = NoFile
    /\ existingNames = {}
    /\ namesBefore = {}
    /\ generated = NoName
    /\ streak = NoStreak
    /\ ExtractorIdle
    /\ HooksIdle

\* the extraction result carries nothing but the evaluation {name, harmful}
HarmfulOnly(extractionResult, name) ==
    /\ extractionResult.new_key_points = <<>>
    /\ extractionResult.evaluations = <<[name |-> name, rating |-> "harmful"]>>

\* the run of harmful-only merges after one more merge: it goes on when the
\* merge is harmful-only for the same name, starts anew (recording the score
\* the key point starts from) when it is harmful-only for a name the playbook
\* holds, and ends otherwise
StreakAfter(kps, extractionResult) ==
    IF \E n \in Names(kps) : HarmfulOnly(extractionResult, n)
    THEN LET n == CHOOSE m \in Names(kps) : HarmfulOnly(extractionResult, m)
             kp == kps[CHOOSE i \in 1..Len(kps) : kps[i].name = n]
         IN  IF streak.name = n
             THEN [streak EXCEPT !.count = streak.count + 1]
             ELSE [name |-> n, start |-> kp.score, count |-> 1]
    ELSE NoStreak

\* playbook = updatePlaybookData(playbook, extractionResult)
\* (session_end.ts 73, precompact.ts 38)
Merge(extractionResult) ==
    /\ merges < MaxMerges
    /\ pre' = playbook
    /\ res' = extractionResult
    /\ playbook' = updatePlaybookData(playbook, extractionResult)
    /\ op' = "merge"
    /\ merges' = merges + 1
    /\ streak' = StreakAfter(playbook, extractionResult)
    /\ UNCHANGED <<nameVars, file, extractVars, hookVars>>

Next == \E r \in ExtractionResults(MaxResultSize) : Merge(r)

Spec == Init /\ [][Next]_vars

--------------------------------------------------------------------------
(* C1 *)

\* C1: starting from pairwise distinct names, after any sequence of merges
\* the names of the playbook are pairwise distinct, and every name generated
\* during a merge differs from every name the playbook holds at the moment
\* it is generated.
C1_NamesStayDistinct ==
    /\ PairwiseDistinctNames(playbook)
    /\ op = "merge" =>
          LET grown == WithNewKeyPoints(pre, res.new_key_points)
          IN  \A i \in (Len(pre) + 1)..Len(grown) :
                  grown[i].name \notin Names(SubSeq(grown, 1, i - 1))

\* C1 witness: the second merge in a row generated two names, for a playbook
\* that held a name of the kpt_ pattern already, and the three are kept
C1_Witness ==
    /\ op = "merge"
    /\ merges = 2
    /\ Len(WithNewKeyPoints(pre, res.new_key_points)) = Len(pre) + 2
    /\ Len(playbook) = Len(pre) + 2
    /\ \E i \in 1..Len(pre) : CountsForNumbering(pre[i].name)

--------------------------------------------------------------------------
(* C2 *)

CountText(kps, text) == Cardinality({ i \in 1..Len(kps) : kps[i].text = text })

\* C2: a text of new_key_points that is the text of a key point before the
\* merge adds no entry: the number of key points carrying it does not grow.
C2_ExistingTextNotAdded ==
    op = "merge" =>
        \A i \in 1..Len(res.new_key_points) :
            LET text == res.new_key_points[i]
            IN  text \in Texts(pre) =>
                    CountText(playbook, text) <= CountText(pre, text)

\* C2 witness: a merge resubmitted the text of a key point whose score is not
\* 0, together with a text that is new, and the key point is still there
C2_Witness ==
    /\ op = "merge"
    /\ \E i \in 1..Len(pre) :
          /\ pre[i].score # 0
          /\ pre[i].text \in { res.new_key_points[k] : k \in 1..Len(res.new_key_points) }
          /\ CountText(playbook, pre[i].text) = 1
    /\ Len(playbook) > Len(pre)

--------------------------------------------------------------------------
(* C3 *)

\* sum over the evaluations naming `name` of the delta that the table
\* `delta` gives their rating
RECURSIVE SumOfDeltas(_, _, _)
SumOfDeltas(evaluations, name, delta) ==
    IF evaluations = <<>> THEN 0
    ELSE (IF Head(evaluations).name = name THEN delta[Head(evaluations).rating] ELSE 0)
         + SumOfDeltas(Tail(evaluations), name, delta)

\* the deltas as claimed: 0 for every rating that is not one of the three
ClaimedDelta ==
    [r \in Ratings |->
        CASE r = "helpful" -> 1
          [] r = "harmful" -> 0 - 3
          [] r = "neutral" -> 0 - 1
          [] OTHER -> 0]

\* the deltas of the code: a missing or empty rating counts as neutral
NeutralDefaultDelta ==
    [r \in Ratings |->
        CASE r = "helpful" -> 1
          [] r = "harmful" -> 0 - 3
          [] r \in {"neutral", ""} -> 0 - 1
          [] OTHER -> 0]

\* C3 as claimed: in one merge the score of each key point changes by the sum
\* of the deltas of the evaluations that name it: +1 helpful, -3 harmful, -1
\* neutral, 0 for any other rating string, an empty or missing one included.
C3_AsClaimed ==
    op = "merge" =>
        LET grown == WithNewKeyPoints(pre, res.new_key_points)
            after == Evaluated(pre, res)
        IN  \A i \in 1..Len(grown) :
                /\ after[i].isNum
                /\ after[i].score = grown[i].score
                       + SumOfDeltas(res.evaluations, grown[i].name, ClaimedDelta)

\* some evaluation naming `name` carries the name of an inherited property
RatedByInheritedKey(evaluations, name) ==
    \E k \in 1..Len(evaluations) :
        /\ evaluations[k].name = name
        /\ evaluations[k].rating \in ObjectPrototypeKeys

\* C3 amended: in one merge the score of each key point changes by the sum of
\* the deltas of the evaluations that name it: +1 helpful, -3 harmful, -1
\* neutral and -1 for an empty or missing rating, 0 for any other rating
\* string; a key point rated with the name of a property inherited from
\* Object.prototype ("constructor") has no numeric score afterwards and is
\* not in the returned playbook. The key points returned carry the scores so
\* computed, and an evaluation naming no key point changes nothing.
C3_ScoreDeltas ==
    op = "merge" =>
        LET grown == WithNewKeyPoints(pre, res.new_key_points)
            after == Evaluated(pre, res)
        IN  /\ Len(after) = Len(grown)
            /\ \A i \in 1..Len(grown) :
                  IF RatedByInheritedKey(res.evaluations, grown[i].name)
                  THEN /\ ~after[i].isNum
                       /\ grown[i].name \notin Names(playbook)
                  ELSE /\ after[i].isNum
                       /\ after[i].score = grown[i].score
                              + SumOfDeltas(res.evaluations, grown[i].name,
                                            NeutralDefaultDelta)
            /\ \A j \in 1..Len(playbook) :
                  \E i \in 1..Len(grown) :
                      /\ grown[i].name = playbook[j].name
                      /\ after[i].score = playbook[j].score

\* C3 witness: one merge rated a key point twice, once with an empty rating
\* and once with a rating of the table, rated another key point with an
\* unknown rating string, and named a key point the playbook does not hold
C3_Witness ==
    /\ op = "merge"
    /\ \E i \in 1..Len(pre) :
          /\ SumOfDeltas(res.evaluations, pre[i].name, NeutralDefaultDelta) = 0 - 4
          /\ \E k \in 1..Len(res.evaluations) :
                res.evaluations[k] = [name |-> pre[i].name, rating |-> ""]
          /\ \E j \in 1..Len(playbook) :
                playbook[j] = [pre[i] EXCEPT !.score = pre[i].score - 4]

--------------------------------------------------------------------------
(* C4 *)

\* C4: after every merge a key point is in the returned playbook if and only
\* if its score after that merge's evaluations is greater than -5: one at -4
\* stays, one at -5 goes, and every returned key point has a score above -5.
C4_PrunedAtMinusFive ==
    op = "merge" =>
        LET after == Evaluated(pre, res)
        IN  /\ \A j \in 1..Len(playbook) : playbook[j].score > 0 - 5
            /\ \A i \in 1..Len(after) :
                  (after[i].isNum /\ after[i].score > 0 - 5)
                  <=> (\E j \in 1..Len(playbook) :
                          playbook[j] = KeyPoint(after[i].name, after[i].text,
                                                 after[i].score))

\* C4 witness: in one merge a key point came to -5 and is gone, and another
\* one stands at -4 and is kept
C4_Witness ==
    /\ op = "merge"
    /\ LET after == Evaluated(pre, res)
       IN  \E i, k \in 1..Len(after) :
              /\ after[i].isNum /\ after[i].score = 0 - 5
              /\ after[i].name \notin Names(playbook)
              /\ after[k].isNum /\ after[k].score = 0 - 4
              /\ after[k].name \in Names(playbook)

--------------------------------------------------------------------------
(* C5 *)

ScoresOf(kps, name) == { kps[i].score : i \in { j \in 1..Len(kps) : kps[j].name = name } }

\* C5: a key point at score 0 that consecutive merges rate harmful, each with
\* that single evaluation, stands at -3 after the first of them and is
\* removed by the second one.
C5_TwoHarmfulRemove ==
    (op = "merge" /\ streak.name # NoName /\ streak.start = 0) =>
        /\ streak.count = 1 => ScoresOf(playbook, streak.name) = {0 - 3}
        /\ streak.count = 2 => streak.name \notin Names(playbook)
        /\ streak.count = 2 => ScoresOf(pre, streak.name) = {0 - 3}

\* C5 witness: the second harmful-only merge in a row for a key point that
\* started at 0 has been applied
C5_Witness ==
    /\ op = "merge"
    /\ streak.name # NoName
    /\ streak.start = 0
    /\ streak.count = 2
    /\ HarmfulOnly(res, streak.name)
    /\ streak.name \in Names(pre)

--------------------------------------------------------------------------
(* extractKeypoints, common.ts 272-467: the reflection loop *)

\* an optional field of a reply: absent (undefined), or present with a value
Absent == [has |-> FALSE, val |-> <<>>]

Present(v) == [has |-> TRUE, val |-> v]

\* the values AGENTIC_CONTEXT_MAX_ROUNDS takes: unset, empty, not a number,
\* negative, and the numerals up to maxCfg
RoundsEnvValues(maxCfg) ==
    {[absent |-> TRUE, text |-> <<>>]}
    \cup {[absent |-> FALSE, text |-> t] :
            t \in {<<>>, <<"x">>, <<"-", "1">>}
                  \cup {NumToString(n) : n \in 0..maxCfg}}

\* process.env[...] || '1'
RoundsText(env) ==
    IF env.absent \/ env.text = <<>> THEN [absent |-> FALSE, text |-> <<"1">>]
    ELSE env

\* const maxRounds = parseInt(process.env[...] || '1', 10)
maxRounds == ParseInt(RoundsText(roundsEnv))

\* const minRounds = Math.max(1, maxRounds); Math.max with NaN is NaN
minRounds ==
    IF maxRounds.nan THEN maxRounds
    ELSE [nan |-> FALSE, val |-> MaxOf({1, maxRounds.val})]

\* a variant of the loop test that admits one round more
LoopTestInclusive(r) == ~minRounds.nan /\ r <= minRounds.val

\* round < minRounds; a comparison with NaN is false
LoopTest(r) == ~minRounds.nan /\ r < minRounds.val

\* what the model writes in a given round (1-based), tagged by the round
Learned == <<"learned Y", "learned Z", "learned A", "learned B", "learned C">>

LearnedInRound(k) == Learned[k]

EvaluationInRound(k) ==
    [name |-> K(PadStart3(NumToString(k))), rating |-> "helpful"]

\* the parsed replies of round k (1-based): the convergence fields, of which
\* at most one signals, and the three optional payload fields
Replies(k) ==
    { r \in [found_root_cause : BOOLEAN,
             no_new_insights : BOOLEAN,
             insights_depth : {"partial", "sufficient"},
             insights : {Absent, Present(<<"insight">>)},
             new_key_points : {Absent, Present(<<>>), Present(<<LearnedInRound(k)>>)},
             evaluations : {Absent, Present(<<>>), Present(<<EvaluationInRound(k)>>)}] :
        /\ ~(r.found_root_cause /\ r.no_new_insights)
        /\ (r.found_root_cause \/ r.no_new_insights) => r.insights_depth = "partial" }

\* lines 420-422
Converged(result, r) ==
    \/ result.found_root_cause
    \/ result.no_new_insights
    \/ (r > 0 /\ result.insights_depth = "sufficient")

\* a variant of the break condition that lets the first round stop the loop
StopsLoopInAnyRound(result, r) == Converged(result, r)

\* line 446: if (converged && round > 0) break
StopsLoop(result, r) == Converged(result, r) /\ r > 0

\* lines 425-427
WithInsights(insights, result) ==
    IF result.insights.has THEN insights \o result.insights.val ELSE insights

\* lines 430-433: a field of the reply replaces the running one unless it is
\* absent; an empty array is present
UpdatedResult(final, result) ==
    [new_key_points |-> IF result.new_key_points.has THEN result.new_key_points.val
                        ELSE final.new_key_points,
     evaluations |-> IF result.evaluations.has THEN result.evaluations.val
                     ELSE final.evaluations]

\* the log entry of a round that replied, and of a round that threw
Replied(result) ==
    [failed |-> FALSE,
     found_root_cause |-> result.found_root_cause,
     no_new_insights |-> result.no_new_insights,
     insights_depth |-> result.insights_depth]

Threw ==
    [failed |-> TRUE, found_root_cause |-> FALSE, no_new_insights |-> FALSE,
     insights_depth |-> "partial"]

InitExtract ==
    /\ existingNames = {}
    /\ namesBefore = {}
    /\ generated = NoName
    /\ file = NoFile
    /\ playbook = <<>>
    /\ pre = <<>>
    /\ res = EmptyResult
    /\ merges = 0
    /\ streak = NoStreak
    /\ op = "init"
    /\ apiKey \in BOOLEAN
    /\ roundsEnv \in RoundsEnvValues(MaxRoundsConfigured)
    /\ round = 0
    /\ calls = 0
    /\ previousInsights = <<>>
    /\ finalResult = EmptyResult
    /\ pc = "start"
    /\ returned = EmptyResult
    /\ log = <<>>
    /\ HooksIdle

\* leave the function with a value
Return(value) ==
    /\ pc' = "done"
    /\ returned' = value

\* a variant of the entry that does not look at the credential
EnterWithoutCredentialCheck ==
    /\ pc = "start"
    /\ op' = "enter"
    /\ calls' = calls + 1
    /\ pc' = "awaiting"
    /\ UNCHANGED <<round, previousInsights, finalResult, returned, log>>
    /\ UNCHANGED <<nameVars, storeVars, hookVars, apiKey, roundsEnv>>

\* lines 277-414 up to the first await: without a credential the function
\* returns at once; otherwise the loop is entered and the first call issued,
\* unless the loop test already fails
Enter ==
    /\ pc = "start"
    /\ op' = "enter"
    /\ IF ~apiKey THEN
         /\ Return(EmptyResult)
         /\ UNCHANGED <<calls, round, previousInsights, finalResult, log>>
       ELSE IF LoopTest(0) THEN
         /\ calls' = calls + 1
         /\ pc' = "awaiting"
         /\ UNCHANGED <<round, previousInsights, finalResult, returned, log>>
       ELSE
         /\ Return(finalResult)
         /\ UNCHANGED <<calls, round, previousInsights, finalResult, log>>
    /\ UNCHANGED <<nameVars, storeVars, hookVars, apiKey, roundsEnv>>

\* the loop's increment and test after a round that did not leave the loop:
\* the next call is issued, or the loop ends and finalResult is returned
NextRound(final) ==
    /\ round' = round + 1
    /\ IF LoopTest(round + 1) THEN
         /\ calls' = calls + 1
         /\ pc' = "awaiting"
         /\ UNCHANGED returned
       ELSE
         /\ Return(final)
         /\ UNCHANGED calls

\* lines 414-451: the call of the current round resolves with a reply
Reply(result) ==
    /\ pc = "awaiting"
    /\ op' = "reply"
    /\ log' = Append(log, Replied(result))
    /\ previousInsights' = WithInsights(previousInsights, result)
    /\ finalResult' = UpdatedResult(finalResult, result)
    /\ IF StopsLoop(result, round) THEN
         /\ Return(UpdatedResult(finalResult, result))
         /\ UNCHANGED <<round, calls>>
       ELSE NextRound(UpdatedResult(finalResult, result))
    /\ UNCHANGED <<nameVars, storeVars, hookVars, apiKey, roundsEnv>>

\* a variant of the catch block that goes on with the next round
FailThenNextRound ==
    /\ pc = "awaiting"
    /\ op' = "fail"
    /\ log' = Append(log, Threw)
    /\ NextRound(finalResult)
    /\ UNCHANGED <<nameVars, storeVars, hookVars, apiKey, roundsEnv, previousInsights,
                   finalResult>>

\* a variant of the catch block that returns the empty result in every round
FailReturnsEmpty ==
    /\ pc = "awaiting"
    /\ op' = "fail"
    /\ log' = Append(log, Threw)
    /\ Return(EmptyResult)
    /\ UNCHANGED <<nameVars, storeVars, hookVars, apiKey, roundsEnv, round, calls,
                   previousInsights, finalResult>>

\* lines 453-463: the call of the current round rejects, or handling its reply
\* throws; in the first round the function returns the empty result,
\* later the loop is left and finalResult returned
Fail ==
    /\ pc = "awaiting"
    /\ op' = "fail"
    /\ log' = Append(log, Threw)
    /\ IF round = 0 THEN Return(EmptyResult) ELSE Return(finalResult)
    /\ UNCHANGED <<nameVars, storeVars, hookVars, apiKey, roundsEnv, round, calls,
                   previousInsights, finalResult>>

NextExtract ==
    \/ Enter
    \/ \E result \in Replies(round + 1) : Reply(result)
    \/ Fail

SpecExtract == InitExtract /\ [][NextExtract]_vars

--------------------------------------------------------------------------
(* Reflection loop: convergence and first-round failure *)

\* the configured number of rounds, where it is a number
R == maxRounds.val

\* the extractor has returned, R > 1 rounds were configured and no round threw
FinishedWithoutFailure ==
    /\ apiKey
    /\ pc = "done"
    /\ ~maxRounds.nan
    /\ R > 1
    /\ \A k \in 1..Len(log) : ~log[k].failed

\* the reply of a logged round carries one of the three signals
Signals(entry) ==
    \/ entry.found_root_cause
    \/ entry.no_new_insights
    \/ entry.insights_depth = "sufficient"

\* C9 as the claim words it: with R > 1 and no failure, fewer than R calls
\* are issued exactly when some round after the first carried a signal
C9_AsClaimed ==
    FinishedWithoutFailure =>
        ((calls < R) <=> (\E k \in 2..Len(log) : Signals(log[k])))

\* the state part of C9: every call issued is a round logged; the loop makes
\* at least two calls whatever the first round signals; it ends with the
\* first round after the first that signals, and runs all R rounds if there
\* is none; hence fewer than R calls exactly when a round after the first
\* and before the R-th signals
C9_CallsIssued ==
    FinishedWithoutFailure =>
        /\ calls = Len(log)
        /\ calls >= 2
        /\ \A k \in 2..(Len(log) - 1) : ~Signals(log[k])
        /\ calls = IF Signals(log[Len(log)]) THEN Len(log) ELSE R
        /\ (calls < R) <=> (\E k \in 2..Len(log) : k < R /\ Signals(log[k]))

\* the example of C9 as a step: R = 3, round 1 replied insights_depth partial,
\* and round 2 replies insights_depth sufficient with new_key_points
\* ["learned Z"]: the function returns after this second call with
\* new_key_points ["learned Z"]
C9_ExampleStep ==
    \A result \in Replies(2) :
        ( /\ apiKey /\ ~maxRounds.nan /\ R = 3
          /\ Len(log) = 1 /\ ~log[1].failed /\ log[1].insights_depth = "partial"
          /\ result.insights_depth = "sufficient"
          /\ result.new_key_points = Present(<<"learned Z">>)
          /\ Reply(result) )
        => ( /\ pc' = "done"
             /\ calls' = 2
             /\ returned'.new_key_points = <<"learned Z">> )

\* C9 (amended): with maxRounds R > 1 and no call failure, the reflection
\* loop stops before issuing R calls exactly when some round after the first
\* and before the R-th returns found_root_cause, no_new_insights or
\* insights_depth "sufficient"; a signal in the first round does not stop the
\* loop, and a signal in the R-th round finds all R calls issued. The example
\* with R = 3 ends after exactly two calls with new_key_points ["learned Z"].
C9_StopsAtFirstLaterSignal ==
    /\ []C9_CallsIssued
    /\ [][C9_ExampleStep]_vars

\* the example of C9 has run: R = 3, two rounds, the second signalled
\* "sufficient" and supplied "learned Z", and the function returned it
C9_Witness ==
    /\ FinishedWithoutFailure
    /\ R = 3
    /\ Len(log) = 2
    /\ log[1].insights_depth = "partial"
    /\ log[2].insights_depth = "sufficient"
    /\ calls = 2
    /\ returned.new_key_points = <<"learned Z">>

\* C10: when the call of the first round fails, extractKeypoints has returned
\* {new_key_points: [], evaluations: []} and that call is the only one ever
\* issued, whatever maxRounds is
C10_FirstRoundFailure ==
    (apiKey /\ Len(log) >= 1 /\ log[1].failed) =>
        /\ pc = "done"
        /\ returned = EmptyResult
        /\ calls = 1
        /\ Len(log) = 1

\* the first round failed with the largest number of rounds configured
C10_Witness ==
    /\ apiKey
    /\ ~maxRounds.nan
    /\ R = MaxRoundsConfigured
    /\ log = <<Threw>>
    /\ pc = "done"
    /\ op = "fail"

--------------------------------------------------------------------------
(* Reflection loop: later failures, provenance of the result, credential,
   number and order of the calls *)

\* a step in which the call in flight fails in a round after the first
LaterRoundFails ==
    /\ apiKey
    /\ pc = "awaiting"
    /\ round > 0
    /\ log' = Append(log, Threw)

\* C11: a failure can only be the last round logged, and after it the
\* function has returned with as many calls as rounds logged
C11_FailureEndsLoop ==
    \A k \in 1..Len(log) :
        log[k].failed => (k = Len(log) /\ pc = "done" /\ calls = Len(log))

\* C11: when the call fails in a round after the first, no further call is
\* issued and extractKeypoints returns the running result exactly as it stood
\* after the last successful round (finalResult before the failing step)
C11_LaterFailureReturnsRunning ==
    /\ []C11_FailureEndsLoop
    /\ [][LaterRoundFails =>
            (pc' = "done" /\ calls' = calls /\ returned' = finalResult
             /\ finalResult' = finalResult)]_vars

\* round 1 supplied "learned Y", round 2 failed, and "learned Y" was returned
C11_Witness ==
    /\ apiKey
    /\ pc = "done"
    /\ Len(log) = 2
    /\ ~log[1].failed
    /\ log[2].failed
    /\ returned.new_key_points = <<LearnedInRound(1)>>
    /\ returned.evaluations = <<EvaluationInRound(1)>>

\* the rounds logged that completed successfully
SuccessfulRounds == {k \in 1..Len(log) : ~log[k].failed}

\* C12: when extractKeypoints has returned after at least one successful
\* round, every key point text and every evaluation of the result was
\* written by the last round that completed successfully (the payload of
\* round k is tagged with k)
C12_FieldsFromLastRound ==
    (apiKey /\ pc = "done" /\ SuccessfulRounds # {}) =>
        \A k \in 1..Len(log) :
            /\ returned.new_key_points = <<LearnedInRound(k)>>
                   => k = MaxOf(SuccessfulRounds)
            /\ returned.evaluations = <<EvaluationInRound(k)>>
                   => k = MaxOf(SuccessfulRounds)

\* C13: without an API credential no call is ever issued and no round is
\* logged, and once extractKeypoints has returned, the result is
\* {new_key_points: [], evaluations: []}; the only way out of the function
\* is a returned value
C13_NoCredentialNoCall ==
    ~apiKey =>
        /\ calls = 0
        /\ log = <<>>
        /\ pc \in {"start", "done"}
        /\ pc = "done" => returned = EmptyResult

\* the function was entered without a credential, with three rounds
\* configured, and has returned
C13_Witness ==
    /\ ~apiKey
    /\ op = "enter"
    /\ pc = "done"
    /\ ~maxRounds.nan
    /\ R = MaxRoundsConfigured
    /\ returned = EmptyResult
    /\ calls = 0

\* calls issued and not yet resolved
InFlight == calls - Len(log)

\* C14, the state part: with a credential and an integer number of rounds m,
\* once the function is entered between 1 and max(1, m) calls are issued, at
\* most one call is unresolved at any time, and the function has returned
\* exactly when every call issued has resolved
C14_CallsBounded ==
    (apiKey /\ ~maxRounds.nan /\ pc # "start") =>
        /\ calls >= 1
        /\ calls <= MaxOf({1, R})
        /\ InFlight \in {0, 1}
        /\ (pc = "awaiting") <=> (InFlight = 1)
        /\ (pc = "done") <=> (InFlight = 0)

\* C14, the step part: a call is issued one at a time and only when every
\* earlier call has resolved
C14_CallsSequential ==
    calls' # calls => (calls' = calls + 1 /\ Len(log') = calls)

\* the reflection loop under the assumption that the function is entered and
\* every call issued resolves
SpecExtractFair == SpecExtract /\ WF_vars(NextExtract)

\* C14: with a credential present and a configured integer max-rounds value
\* m, extractKeypoints issues at least 1 and at most max(1, m) calls, issues
\* call k+1 only after call k has resolved, and terminates once every issued
\* call has resolved
C14_BoundedSequentialCalls ==
    /\ []C14_CallsBounded
    /\ [][C14_CallsSequential]_vars
    /\ <>(pc = "done")

\* all of the largest configured number of rounds were issued, one after the
\* other, and the function has returned
C14_Witness ==
    /\ apiKey
    /\ ~maxRounds.nan
    /\ R = MaxRoundsConfigured
    /\ calls = MaxRoundsConfigured
    /\ Len(log) = MaxRoundsConfigured
    /\ pc = "done"

--------------------------------------------------------------------------
(* Session gate, common.ts 42-64 *)

\* String.prototype.trim, with the blank as the whitespace character
RECURSIVE TrimEnd(_)
TrimEnd(s) ==
    IF s # <<>> /\ s[Len(s)] = " " THEN TrimEnd(SubSeq(s, 1, Len(s) - 1)) ELSE s

Trim(s) == TrimEnd(SubSeq(s, SkipBlanks(s, 1), Len(s)))

\* a session id that is a string
StringId(text) == [kind |-> "string", text |-> text]

\* the session ids of the hook inputs: three strings, one of them with a
\* leading blank, and a JSON number
SessionA == StringId(<<"a">>)

SessionPaddedA == StringId(<<" ", "a">>)

SessionB == StringId(<<"b">>)

SessionSeven == [kind |-> "number", text |-> <<"7">>]

\* inputData.session_id || 'unknown'
Unknown == StringId(<<"u", "n", "k", "n", "o", "w", "n">>)

SessionIds == {SessionA, SessionPaddedA, SessionB, SessionSeven, Unknown}

\* lines 42-51: the file's text is trimmed, the argument is not, and !== is
\* false only for two equal strings
isFirstMessage(sessionId) ==
    IF token.exists
    THEN ~(sessionId.kind = "string" /\ sessionId.text = Trim(token.text))
    ELSE TRUE

\* lines 53-57: what last_session.txt holds after a write that succeeded
markSession(sessionId) == [exists |-> TRUE, text |-> sessionId.text]

\* lines 59-64: last_session.txt after clearSession
clearSession == [exists |-> FALSE, text |-> <<>>]

--------------------------------------------------------------------------
(* formatPlaybook and savePlaybook, common.ts 157-174 *)

\* a piece of the template or of the rendered context
TextPiece(text) == [kind |-> "text", text |-> text]

Placeholder == [kind |-> "placeholder", text |-> "{key_points}"]

\* `- ${kp.text}`
Bullet(kp) == [kind |-> "bullet", text |-> kp.text]

\* playbook.txt: missing or empty (loadTemplate returns ''), or a heading
\* followed by the placeholder
Templates == { <<>>, <<TextPiece("Lessons:"), Placeholder>> }

\* String.prototype.replace with a string pattern: the first occurrence only
RECURSIVE ReplaceFirst(_, _)
ReplaceFirst(pieces, lines) ==
    IF pieces = <<>> THEN <<>>
    ELSE IF Head(pieces) = Placeholder THEN lines \o Tail(pieces)
    ELSE <<Head(pieces)>> \o ReplaceFirst(Tail(pieces), lines)

\* lines 165-174; the empty sequence is the empty string
formatPlaybook(kps) ==
    IF kps = <<>> THEN <<>>
    ELSE ReplaceFirst(template, [i \in 1..Len(kps) |-> Bullet(kps[i])])

\* lines 157-163: playbook.json as savePlaybook writes it
savePlaybook(kps) ==
    [state |-> "ok",
     key_points |-> [i \in 1..Len(kps) |->
                       [kind |-> "object", name |-> kps[i].name, text |-> kps[i].text,
                        hasScore |-> TRUE, score |-> kps[i].score]]]

--------------------------------------------------------------------------
(* The injection hook, user_prompt_inject.ts 11-66 *)

\* the two objects the hook writes to standard output
EmptyObject == [hookEventName |-> "", additionalContext |-> <<>>]

Response(context) ==
    [hookEventName |-> "UserPromptSubmit", additionalContext |-> context]

\* standard input of the injection hook: empty, not JSON, the JSON value
\* null, or an object with or without a (non-empty) session_id
InjectInputs ==
    [kind : {"none", "unparsable", "null"}, session_id : {NoId}]
    \cup
    [kind : {"object"},
     session_id : {NoId, SessionA, SessionPaddedA, SessionB, SessionSeven}]

\* line 26
SessionIdOf(input) ==
    IF input.session_id = NoId THEN Unknown ELSE input.session_id

\* how far main gets, lines 12-42: reading a member of null throws
InjectCase(input) ==
    CASE input.kind = "none" -> "no_stdin"
      [] input.kind = "unparsable" -> "unparsable"
      [] input.kind = "null" -> "threw"
      [] ~isFirstMessage(SessionIdOf(input)) -> "marked"
      [] formatPlaybook(loadPlaybook(file)) = <<>> -> "no_context"
      [] OTHER -> "inject"

\* what fs.writeFileSync does in markSession: the write succeeds, or it throws
\* (an I/O error; a session id that is not a string is coerced or rejected,
\* depending on the runtime)
WriteOutcomes == {"written", "throws"}

\* whether the write of markSession succeeded
Written(outcome) == outcome = "written"

\* one run of the hook, with the catch of lines 60-66: when markSession throws
\* after the response was printed, the handler prints {} as well
Prompt(input, outcome) ==
    /\ runs < MaxRuns
    /\ runs' = runs + 1
    /\ op' = "prompt"
    /\ LET sessionId == SessionIdOf(input)
           case == InjectCase(input)
           context == formatPlaybook(loadPlaybook(file))
           threw == case = "threw" \/ (case = "inject" /\ ~Written(outcome))
       IN  /\ lastRun' =
                [NoRun EXCEPT
                   !.hook = "inject",
                   !.case = case,
                   !.id = IF input.kind = "object" THEN sessionId ELSE NoId,
                   !.stdout = IF case = "inject"
                              THEN IF Written(outcome) THEN <<Response(context)>>
                                   ELSE <<Response(context), EmptyObject>>
                              ELSE <<EmptyObject>>,
                   !.exit = IF threw THEN 1 ELSE 0,
                   !.err = threw,
                   !.read = case \in {"no_context", "inject"},
                   !.marked = (case = "inject" /\ Written(outcome)),
                   !.again = (case = "inject" /\ sessionId \in injected)]
           /\ token' = IF case = "inject" /\ Written(outcome)
                       THEN markSession(sessionId) ELSE token
           /\ injected' = IF case = "inject" THEN injected \cup {sessionId}
                          ELSE injected
    /\ UNCHANGED <<nameVars, storeVars, extractVars, template, proc>>

--------------------------------------------------------------------------
(* The update cycle of session_end.ts 12-83 and precompact.ts 11-48 *)

Hooks == {"session_end", "precompact"}

\* the processes that can run an update cycle at the same time
Procs == {1, 2}

Idle == [pc |-> "idle", hook |-> "none", playbook |-> <<>>, stale |-> FALSE,
         missed |-> {}]

\* settings.json as loadSettings returns it
Settings == [playbook_update_on_exit : BOOLEAN, playbook_update_on_clear : BOOLEAN]

\* standard input of an update hook, with what the transcript it names
\* yields, and the settings the run finds
CycleInputs ==
    [kind : {"none", "unparsable", "null"}, transcript : {"absent"},
     reason : {""}, settings : Settings]
    \cup
    [kind : {"object"}, transcript : {"absent", "empty", "messages"},
     reason : {"", "prompt_input_exit", "clear"}, settings : Settings]

\* session_end.ts 50-64
Skips(input) ==
    \/ ~input.settings.playbook_update_on_exit /\ input.reason = "prompt_input_exit"
    \/ ~input.settings.playbook_update_on_clear /\ input.reason = "clear"

\* a variant that does not test the transcript for messages
CycleCaseWithoutEmptyCheck(hook, input) ==
    CASE input.kind = "none" -> "no_stdin"
      [] input.kind = "unparsable" -> "unparsable"
      [] input.kind = "null" -> "threw"
      [] hook = "session_end" /\ input.transcript = "absent" -> "no_path"
      [] hook = "session_end" /\ Skips(input) -> "skipped"
      [] OTHER -> "update"

\* how far main gets before the playbook is loaded; precompact hands an
\* absent transcript_path to loadTranscript, which returns no messages
CycleCase(hook, input) ==
    CASE input.kind = "none" -> "no_stdin"
      [] input.kind = "unparsable" -> "unparsable"
      [] input.kind = "null" -> "threw"
      [] input.transcript = "absent" -> "no_path"
      [] input.transcript = "empty" -> "empty"
      [] hook = "session_end" /\ Skips(input) -> "skipped"
      [] OTHER -> "update"

\* the cases in which the run reports an error and exits with status 1:
\* session_end.ts 28-41, and the rejected main() of both hooks
ReportsError(hook, case) ==
    \/ case = "threw"
    \/ hook = "session_end" /\ case \in {"unparsable", "no_path"}

\* a run that ends before the playbook is loaded
CycleNoop(hook, input) ==
    /\ runs < MaxRuns
    /\ CycleCase(hook, input) # "update"
    /\ runs' = runs + 1
    /\ op' = "noop"
    /\ lastRun' = [NoRun EXCEPT
                     !.hook = hook,
                     !.case = CycleCase(hook, input),
                     !.exit = IF ReportsError(hook, CycleCase(hook, input))
                              THEN 1 ELSE 0,
                     !.err = ReportsError(hook, CycleCase(hook, input))]
    /\ UNCHANGED <<nameVars, storeVars, extractVars, token, template, proc, injected>>

\* session_end.ts 66-67, precompact.ts 31-32: the playbook is loaded and
\* extractKeypoints awaited
CycleLoad(p, hook, input) ==
    /\ runs < MaxRuns
    /\ proc[p].pc = "idle"
    /\ CycleCase(hook, input) = "update"
    /\ runs' = runs + 1
    /\ op' = "load"
    /\ proc' = [proc EXCEPT ![p] = [pc |-> "extracting", hook |-> hook,
                                    playbook |-> loadPlaybook(file),
                                    stale |-> FALSE, missed |-> {}]]
    /\ UNCHANGED <<nameVars, storeVars, extractVars, token, template, lastRun,
                   injected>>

\* the extraction results of the update cycles
HookResults ==
    { EmptyResult,
      [new_key_points |-> <<"a">>, evaluations |-> <<>>],
      [new_key_points |-> <<"c">>, evaluations |-> <<>>],
      [new_key_points |-> <<>>,
       evaluations |-> <<[name |-> K(<<"0", "0", "1">>), rating |-> "harmful"]>>] }

\* the texts of a saved playbook that a loaded playbook lacks
Added(loaded, saved) ==
    {saved[i].text : i \in 1..Len(saved)} \ {loaded[i].text : i \in 1..Len(loaded)}

\* a variant of the cycle's end that merges into the playbook as persisted now
MergedIntoCurrent(p, extractionResult) ==
    updatePlaybookData(loadPlaybook(file), extractionResult)

\* session_end.ts 73, precompact.ts 38: the merge into the playbook this
\* process loaded
Merged(p, extractionResult) ==
    updatePlaybookData(proc[p].playbook, extractionResult)

\* session_end.ts 73-76, precompact.ts 38-41, once extractKeypoints has
\* returned: merge, save, clear the session token; a save that throws
\* rejects main(), which reports the error and exits with status 1
CycleSave(p, extractionResult, outcome) ==
    /\ proc[p].pc = "extracting"
    /\ op' = "save"
    /\ LET kps == Merged(p, extractionResult)
       IN  /\ lastRun' =
                [NoRun EXCEPT
                   !.hook = proc[p].hook,
                   !.case = "update",
                   !.exit = IF Written(outcome) THEN 0 ELSE 1,
                   !.err = ~Written(outcome),
                   !.read = TRUE,
                   !.extracted = TRUE,
                   !.wrote = Written(outcome),
                   !.cleared = Written(outcome),
                   !.missed = proc[p].missed,
                   !.own = {extractionResult.new_key_points[i] :
                              i \in 1..Len(extractionResult.new_key_points)}]
           /\ file' = IF Written(outcome) THEN savePlaybook(kps) ELSE file
           /\ token' = IF Written(outcome) THEN clearSession ELSE token
           /\ proc' = [q \in Procs |->
                         IF q = p THEN Idle
                         ELSE IF proc[q].pc = "extracting" /\ Written(outcome)
                         THEN [proc[q] EXCEPT
                                 !.stale = TRUE,
                                 !.missed = proc[q].missed
                                              \cup Added(proc[q].playbook, kps)]
                         ELSE proc[q]]
    /\ UNCHANGED <<nameVars, playbook, pre, res, merges, streak, extractVars,
                   template, runs, injected>>

\* a variant in which the session token is cleared before the failure
CycleThrowAfterClear(p) ==
    /\ proc[p].pc = "extracting"
    /\ op' = "throw"
    /\ lastRun' = [NoRun EXCEPT
                     !.hook = proc[p].hook,
                     !.case = "update",
                     !.exit = 1,
                     !.err = TRUE,
                     !.read = TRUE,
                     !.extracted = TRUE,
                     !.cleared = TRUE]
    /\ token' = clearSession
    /\ proc' = [proc EXCEPT ![p] = Idle]
    /\ UNCHANGED <<nameVars, storeVars, extractVars, template, runs, injected>>

\* session_end.ts 67-73 and 79-83, precompact.ts 32-38 and 44-48: an
\* exception between the load and the save, as updatePlaybookData throws for
\* a result whose new_key_points is not iterable (common.ts 188) or whose
\* evaluations hold null (common.ts 199); main() is rejected, the error is
\* reported and the run exits with status 1
CycleThrow(p) ==
    /\ proc[p].pc = "extracting"
    /\ op' = "throw"
    /\ lastRun' = [NoRun EXCEPT
                     !.hook = proc[p].hook,
                     !.case = "update",
                     !.exit = 1,
                     !.err = TRUE,
                     !.read = TRUE,
                     !.extracted = TRUE]
    /\ proc' = [proc EXCEPT ![p] = Idle]
    /\ UNCHANGED <<nameVars, storeVars, extractVars, token, template, runs,
                   injected>>

\* the persisted playbooks the hooks start from
HookFiles ==
    { NoFile, savePlaybook(<<KeyPoint(K(<<"0", "0", "1">>), "b", 0)>>) }

InitHooks ==
    /\ existingNames = {}
    /\ namesBefore = {}
    /\ generated = NoName
    /\ file \in HookFiles
    /\ playbook = <<>>
    /\ pre = <<>>
    /\ res = EmptyResult
    /\ merges = 0
    /\ streak = NoStreak
    /\ op = "init"
    /\ ExtractorIdle
    /\ token = clearSession
    /\ template \in Templates
    /\ proc = [p \in Procs |-> Idle]
    /\ lastRun = NoRun
    /\ runs = 0
    /\ injected = {}

NextHooks ==
    \/ \E input \in InjectInputs, outcome \in WriteOutcomes : Prompt(input, outcome)
    \/ \E hook \in Hooks, input \in CycleInputs : CycleNoop(hook, input)
    \/ \E p \in Procs, hook \in Hooks, input \in CycleInputs : CycleLoad(p, hook, input)
    \/ \E p \in Procs, r \in HookResults, outcome \in WriteOutcomes :
           CycleSave(p, r, outcome)
    \/ \E p \in Procs : CycleThrow(p)

SpecHooks == InitHooks /\ [][NextHooks]_vars

--------------------------------------------------------------------------
(* Session gate and injection: C15, C16, C17 *)

\* the session ids that are strings, as the signature of the gate requires
StringIds == {s \in SessionIds : s.kind = "string"}

\* C15: isFirstMessage(s) is true exactly when no token is persisted or the
\* persisted token differs from s; right after markSession(s) it is false
\* for s and true for every other id; right after clearSession() it is true
\* for every id
C15_SessionGate ==
    /\ \A s \in StringIds :
           isFirstMessage(s) <=> (~token.exists \/ token.text # s.text)
    /\ (op = "prompt" /\ lastRun.marked /\ lastRun.id \in StringIds) =>
           /\ ~isFirstMessage(lastRun.id)
           /\ \A t \in StringIds \ {lastRun.id} : isFirstMessage(t)
    /\ (op = "save" /\ lastRun.cleared) =>
           \A t \in StringIds : isFirstMessage(t)

\* a prompt with an object on standard input
ObjectInputs == {input \in InjectInputs : input.kind = "object"}

\* C16: context is emitted for at most one prompt of any session id, and
\* right after a session-end cycle that completed its update, a prompt
\* injects whenever the persisted playbook has key points to render
C16_InjectOncePerSession ==
    /\ ~lastRun.again
    /\ (op = "save" /\ lastRun.hook = "session_end" /\ lastRun.cleared
        /\ formatPlaybook(loadPlaybook(file)) # <<>>) =>
           \A input \in ObjectInputs : InjectCase(input) = "inject"

\* C17: a run of the injection hook writes exactly one object to standard
\* output: the UserPromptSubmit object with the rendered context when the
\* session is first-seen and the formatted playbook is non-empty, {} in every
\* other case; the session id is marked exactly when context was emitted
C17_OneObjectPerRun ==
    (op = "prompt" /\ lastRun.hook = "inject") =>
        /\ Len(lastRun.stdout) = 1
        /\ lastRun.case = "inject" =>
               lastRun.stdout[1] = Response(formatPlaybook(loadPlaybook(file)))
        /\ lastRun.case # "inject" => lastRun.stdout[1] = EmptyObject
        /\ lastRun.marked <=> (lastRun.case = "inject")

--------------------------------------------------------------------------
(* Update hooks: C18, C19, C20 *)

\* the inputs whose transcript is loaded and yields no messages
EmptyTranscriptInputs ==
    {input \in CycleInputs : input.kind = "object" /\ input.transcript = "empty"}

\* a step that is a run of the hook on the input, whatever it does
RunsHook(hook, input) ==
    \/ CycleNoop(hook, input)
    \/ \E p \in Procs : CycleLoad(p, hook, input)

\* C18: in both update hooks, a run whose transcript yields no messages
\* calls no extraction, neither reads nor writes playbook.json, starts no
\* cycle, and leaves the session token as it was
C18_EmptyTranscriptStep ==
    \A hook \in Hooks, input \in EmptyTranscriptInputs :
        RunsHook(hook, input) =>
            /\ file' = file
            /\ token' = token
            /\ proc' = proc
            /\ lastRun'.hook = hook
            /\ lastRun'.case = "empty"
            /\ ~lastRun'.read
            /\ ~lastRun'.wrote
            /\ ~lastRun'.extracted
            /\ ~lastRun'.cleared

C18_EmptyTranscriptNoEffect == [][C18_EmptyTranscriptStep]_vars

\* a precompact run found an empty transcript while a session token and a
\* playbook with key points were persisted, and both are still there
C18_Witness ==
    /\ op = "noop"
    /\ lastRun.hook = "precompact"
    /\ lastRun.case = "empty"
    /\ token.exists
    /\ loadPlaybook(file) # <<>>

\* C19: in the session-end and precompact hooks, a run that finds no stdin,
\* no transcript path or an empty transcript exits with status 0, reports no
\* error and does not write the playbook
C19_AbsentInputCleanNoop ==
    (lastRun.hook \in Hooks /\ lastRun.case \in {"no_stdin", "no_path", "empty"}) =>
        /\ lastRun.exit = 0
        /\ ~lastRun.err
        /\ ~lastRun.wrote

\* the texts of the persisted playbook, as a load returns them
PersistedTexts == {loadPlaybook(file)[i].text : i \in 1..Len(loadPlaybook(file))}

\* C20: when a cycle saves, the persisted playbook is the merge into the
\* playbook that cycle had loaded: of the texts other cycles added and saved
\* in between, only those its own result carries are persisted, and the run
\* reports no error
C20_LaterSaveOverwrites ==
    (op = "save" /\ lastRun.wrote) =>
        /\ lastRun.exit = 0
        /\ ~lastRun.err
        /\ (PersistedTexts \cap lastRun.missed) \subseteq lastRun.own

\* two cycles loaded before either saved; the persisted playbook lacks a
\* text the earlier writer added and saved, and no error is reported
C20_Witness ==
    /\ op = "save"
    /\ lastRun.wrote
    /\ lastRun.exit = 0
    /\ ~lastRun.err
    /\ \E t \in lastRun.missed : t \notin PersistedTexts

--------------------------------------------------------------------------
(* Reflection loop: an empty round after a non-empty one, C21 *)

\* the replies whose new_key_points and evaluations are both present and
\* empty; parseReflectionResponse returns this for a reply with no text and
\* for one that fails to parse (lines 352-354, 372-376)
EmptyReplies(k) ==
    {result \in Replies(k) : /\ result.new_key_points = Present(<<>>)
                             /\ result.evaluations = Present(<<>>)}

\* a round after the first replies with empty new_key_points and evaluations
\* while the running result of the earlier rounds is not empty: the running
\* result stays, and is what the function returns if it returns now
C21_EmptyRoundStep ==
    \A result \in EmptyReplies(round + 1) :
        ( /\ apiKey
          /\ round > 0
          /\ finalResult # EmptyResult
          /\ Reply(result) )
        => ( /\ finalResult' = finalResult
             /\ pc' = "done" => returned' = finalResult )

\* C21: across reflection rounds the last non-empty round wins: a later
\* successful round that returns empty new_key_points and evaluations leaves
\* the result of the last earlier non-empty round in place
C21_LastNonEmptyRoundWins == [][C21_EmptyRoundStep]_vars

--------------------------------------------------------------------------
(* The order of an update cycle, C22 *)

\* the step ends the cycle of process p
CycleEnds(p) == proc[p].pc = "extracting" /\ proc'[p].pc = "idle"

\* the step saves the merge of some extraction result into the playbook that
\* process p loaded, and clears the session token
SavesMergeOf(p) ==
    \E r \in HookResults :
        /\ file' = savePlaybook(updatePlaybookData(proc[p].playbook, r))
        /\ token' = clearSession

C22_CycleStep ==
    \* outside the end of a cycle the playbook file is not written and the
    \* session token is not cleared
    /\ (\A p \in Procs : ~CycleEnds(p)) =>
           /\ file' = file
           /\ token' # token => token' # clearSession
    /\ \A p \in Procs :
           \* the playbook a cycle loaded is the one it works on until it ends
           /\ (proc[p].pc = "extracting" /\ ~CycleEnds(p)) =>
                  proc'[p].playbook = proc[p].playbook
           /\ CycleEnds(p) =>
                  /\ lastRun'.read
                  /\ lastRun'.extracted
                  \* one write, of the merge into the loaded playbook, then
                  \* the clear
                  /\ lastRun'.wrote => SavesMergeOf(p)
                  /\ lastRun'.cleared => lastRun'.wrote
                  \* a cycle that ends without the save leaves both as
                  \* they were
                  /\ ~lastRun'.wrote => (file' = file /\ token' = token)

\* C22: an update cycle loads the playbook, extracts, merges, saves and
\* clears the session token in this order; it reads the playbook file once
\* and writes it at most once, as its last but one step, so a cycle that
\* ends with an exception before the save leaves the persisted playbook and
\* the session token unchanged
C22_SaveAfterMerge == [][C22_CycleStep]_vars

\* a cycle ended with an exception before the save while a playbook with key
\* points and a session token were persisted, and both are still there
C22_Witness ==
    /\ op = "throw"
    /\ lastRun.case = "update"
    /\ lastRun.err
    /\ ~lastRun.wrote
    /\ token.exists
    /\ loadPlaybook(file) # <<>>

--------------------------------------------------------------------------
(* Key-point texts across merges, C23 *)

\* the texts of the key points are pairwise distinct and none is empty
PairwiseDistinctTexts(kps) ==
    /\ \A i, j \in 1..Len(kps) : i # j => kps[i].text # kps[j].text
    /\ \A i \in 1..Len(kps) : kps[i].text # ""

\* C23: a merge into a playbook whose key-point texts are pairwise distinct
\* and not empty gives a playbook whose texts are pairwise distinct and not
\* empty, so this holds after any sequence of merges: a text that occurs
\* more than once in one new_key_points sequence is inserted once
C23_TextsStayDistinct ==
    (op = "merge" /\ PairwiseDistinctTexts(pre)) => PairwiseDistinctTexts(playbook)

--------------------------------------------------------------------------
(* What a merge leaves alone, C24 *)

\* the names some evaluation of the result carries
EvaluatedNames(extractionResult) ==
    {extractionResult.evaluations[k].name : k \in 1..Len(extractionResult.evaluations)}

\* the key points of the playbook before the merge that the merge kept
Kept == SelectSeq(pre, LAMBDA kp : kp.name \in Names(playbook))

\* the key points of the playbook after the merge that it did not hold before
Appended == SubSeq(playbook, Len(Kept) + 1, Len(playbook))

\* s is t with some elements left out
RECURSIVE IsSubsequence(_, _)
IsSubsequence(s, t) ==
    IF s = <<>> THEN TRUE
    ELSE IF t = <<>> THEN FALSE
    ELSE IF Head(s) = Head(t) THEN IsSubsequence(Tail(s), Tail(t))
    ELSE IsSubsequence(s, Tail(t))

\* C24: a merge changes nothing but what its three steps state. The key
\* points it keeps come first, in their order, with name and text unchanged,
\* and with the score unchanged unless an evaluation names them; a key point
\* is removed only if an evaluation names it or its score was -5 or less;
\* the new key points follow, with score 0 unless evaluated, their texts in
\* the order of new_key_points; and with empty new_key_points and
\* evaluations the playbook is unchanged except that key points whose score
\* was -5 or less are removed
C24_MergeFrame ==
    op = "merge" =>
        /\ Len(Kept) <= Len(playbook)
        /\ \A i \in 1..Len(Kept) :
               /\ playbook[i].name = Kept[i].name
               /\ playbook[i].text = Kept[i].text
               /\ Kept[i].name \notin EvaluatedNames(res) =>
                      playbook[i].score = Kept[i].score
        /\ \A i \in 1..Len(pre) :
               pre[i].name \notin Names(playbook) =>
                   \/ pre[i].name \in EvaluatedNames(res)
                   \/ pre[i].score <= 0 - 5
        /\ \A j \in 1..Len(Appended) :
               /\ Appended[j].name \notin Names(pre)
               /\ Appended[j].text \notin Texts(pre)
               /\ Appended[j].name \notin EvaluatedNames(res) => Appended[j].score = 0
        /\ IsSubsequence([j \in 1..Len(Appended) |-> Appended[j].text],
                         res.new_key_points)
        /\ res = EmptyResult =>
               playbook = SelectSeq(pre, LAMBDA kp : kp.score > 0 - 5)

\* a merge kept two key points, one of them evaluated, removed none and
\* appended one
C24_Witness ==
    /\ op = "merge"
    /\ Len(pre) = 2
    /\ Len(Kept) = 2
    /\ Len(Appended) = 1
    /\ \E i \in 1..2 : pre[i].name \in EvaluatedNames(res) /\ playbook[i].score # pre[i].score
    /\ \E i \in 1..2 : pre[i].name \notin EvaluatedNames(res)

\* a merge with empty new_key_points and evaluations removed a key point
\* whose score was -5 already and kept another
C24_WitnessEmptyResult ==
    /\ op = "merge"
    /\ res = EmptyResult
    /\ Len(pre) = 2
    /\ Len(playbook) = 1

--------------------------------------------------------------------------
(* Names after pruning, C25 *)

\* the key points the last merge removed
PrunedByLastMerge ==
    {pre[i] : i \in {k \in 1..Len(pre) : pre[k].name \notin Names(playbook)}}

\* no key point this merge adds carries the name of a key point with another
\* text that the merge before it removed
C25_MergeStep ==
    \A j \in 1..Len(playbook') :
        playbook'[j].name \notin Names(playbook) =>
            \A old \in PrunedByLastMerge :
                old.text # playbook'[j].text => old.name # playbook'[j].name

\* C25: names are not recycled: a name generated for a new key point is
\* never the name a different key point held before it was pruned
C25_NamesNotRecycled == [][C25_MergeStep]_vars

==========================================================================
